---- MODULE Spec2Model ----
(***************************************************************************)
(* Model of sync.py: the one-way synchronisation of guest stays from a     *)
(* calendar feed into the Notion guest and stay databases.                 *)
(*                                                                         *)
(* A Python str is a sequence of one-character strings, the value None (or *)
(* the empty string, wherever the code only tests truthiness) the empty    *)
(* sequence, a date its day ordinal, and an ISO date string the pair       *)
(* <<"iso", ordinal>>.  A Notion page id is a one-element sequence.        *)
(***************************************************************************)
EXTENDS Integers, Sequences, FiniteSets, TLC

\* ---------------------------------------------------------------- bounds

\* Longest calendar feed (number of VEVENT components) explored.
MaxFeed == 3

\* Number of consecutive runs of main explored.
MaxRuns == 2

\* ------------------------------------------------- Python str primitives

UpperToLower ==
    [A |-> "a", B |-> "b", C |-> "c", D |-> "d", E |-> "e", F |-> "f",
     G |-> "g", H |-> "h", I |-> "i", J |-> "j", K |-> "k", L |-> "l",
     M |-> "m", N |-> "n", O |-> "o", P |-> "p", Q |-> "q", R |-> "r",
     S |-> "s", T |-> "t", U |-> "u", V |-> "v", W |-> "w", X |-> "x",
     Y |-> "y", Z |-> "z"]

LowerChar(c) == IF c \in DOMAIN UpperToLower THEN UpperToLower[c] ELSE c

\* str.lower()
Lower(s) == [k \in 1..Len(s) |-> LowerChar(s[k])]

\* Characters matched by \w: letters (the accented one included), digits, "_".
WordChars ==
    DOMAIN UpperToLower
    \cup {UpperToLower[c] : c \in DOMAIN UpperToLower}
    \cup {"à", "_", "0", "1", "2", "3", "4", "5", "6", "7", "8", "9"}

\* Characters removed by str.strip().
Whitespace == {" ", "\n", "\t", "\r"}

StartsWith(s, p) == Len(p) <= Len(s) /\ SubSeq(s, 1, Len(p)) = p

Drop(s, n) == SubSeq(s, n + 1, Len(s))

\* `sub in s`, scanning s from the left.
RECURSIVE Contains(_, _)
Contains(sub, s) ==
    IF Len(s) < Len(sub) THEN FALSE
    ELSE IF StartsWith(s, sub) THEN TRUE
    ELSE Contains(sub, Tail(s))

\* s.replace(old, new): leftmost non-overlapping occurrences (old non-empty).
RECURSIVE Replace(_, _, _)
Replace(s, old, new) ==
    IF Len(s) < Len(old) THEN s
    ELSE IF StartsWith(s, old) THEN new \o Replace(Drop(s, Len(old)), old, new)
    ELSE <<Head(s)>> \o Replace(Tail(s), old, new)

RECURSIVE LStrip(_)
LStrip(s) ==
    IF s # <<>> /\ Head(s) \in Whitespace THEN LStrip(Tail(s)) ELSE s

RECURSIVE RStrip(_)
RStrip(s) ==
    IF s # <<>> /\ s[Len(s)] \in Whitespace
    THEN RStrip(SubSeq(s, 1, Len(s) - 1)) ELSE s

\* str.strip()
Strip(s) == RStrip(LStrip(s))

\* s.split(" ")[0]: everything before the first space.
RECURSIVE SplitFirst(_)
SplitFirst(s) ==
    IF s = <<>> \/ Head(s) = " " THEN <<>>
    ELSE <<Head(s)>> \o SplitFirst(Tail(s))

\* " ".join(parts)
RECURSIVE Join(_)
Join(parts) ==
    IF parts = <<>> THEN <<>>
    ELSE IF Len(parts) = 1 THEN parts[1]
    ELSE parts[1] \o <<" ">> \o Join(Tail(parts))

\* ------------------------------------------------------ string literals

laplace == <<"l", "a", "p", "l", "a", "c", "e">>
at == <<" ", "a", "t", " ">>
a_grave == <<"à">>
EmptyStay == <<"E", "m", "p", "t", "y", " ", "s", "t", "a", "y">>
UnknownGuest ==
    <<"U", "n", "k", "n", "o", "w", "n", " ", "g", "u", "e", "s", "t">>

\* ---------------------------------------------------- filter_stay_events

\* Does the text of s from position p up to position e match
\* [lL]a ?[pP]lace, with a word boundary in front of it?
LaplaceMatch(s, p, e) ==
    /\ p >= 1
    /\ p <= e
    /\ LET m == SubSeq(s, p, e)
           rest == IF Len(m) = 8 THEN SubSeq(m, 4, 8) ELSE SubSeq(m, 3, Len(m))
       IN  /\ Len(m) \in {7, 8}
           /\ m[1] \in {"l", "L"}
           /\ m[2] = "a"
           /\ Len(m) = 8 => m[3] = " "
           /\ rest[1] \in {"p", "P"}
           /\ SubSeq(rest, 2, 5) = <<"l", "a", "c", "e">>
    /\ (p = 1 \/ s[p - 1] \notin WordChars)

\* re.sub(r"\b[lL]a ?[pP]lace$", "", summary).  "$" holds at the end of the
\* string and in front of a final newline; the two pattern lengths cannot
\* both match, and the leftmost match is the one removed.
ReSubLaplace(s) ==
    LET ends == {Len(s)} \cup
                (IF s # <<>> /\ s[Len(s)] = "\n" THEN {Len(s) - 1} ELSE {})
        hits == {pe \in (1..Len(s)) \X ends : LaplaceMatch(s, pe[1], pe[2])}
    IN  IF hits = {} THEN s
        ELSE LET pe == CHOOSE h \in hits : \A g \in hits : h[1] <= g[1]
             IN  SubSeq(s, 1, pe[1] - 1) \o SubSeq(s, pe[2] + 1, Len(s))

guest_name_from_summary(summary) ==
    Strip(Replace(Replace(ReSubLaplace(summary), at, <<>>), a_grave, <<>>))

\* Faulty variant: looks for the marker without removing the spaces.
is_stay_no_space_removal(event) == Contains(laplace, Lower(event.summary))

is_stay(event) ==
    Contains(laplace, Replace(Lower(event.summary), <<" ">>, <<>>))

RECURSIVE filter_stay_events(_)
filter_stay_events(events) ==
    IF events = <<>> THEN <<>>
    ELSE LET event == Head(events)
         IN  (IF is_stay(event)
              THEN <<[summary |-> event.summary,
                      start |-> event.start,
                      end |-> event.end,
                      description |-> event.description,
                      guest |-> guest_name_from_summary(event.summary),
                      id |-> event.id]>>
              ELSE <<>>)
             \o filter_stay_events(Tail(events))

\* --------------------------------------------------- get_calendar_events

\* The value of an unset (or empty) environment variable.
Unset == ""

\* An ISO date string, and the absent (None) date of a Notion date property.
IsoFormat(d) == <<"iso", d>>
FromIsoFormat(s) == s[2]
NoIso == <<>>

\* dtstart / dtend of a component: a date, a datetime, or no property.
DateValue(d) == [kind |-> "date", d |-> d]
DateTimeValue(d) == [kind |-> "datetime", d |-> d]
NoValue == [kind |-> "none", d |-> 0]

\* days_ago, an optional int.
NoDaysAgo == [given |-> FALSE, n |-> 0]

\* cal.walk(): the calendar component itself, then its events.
Walk(ical_data) ==
    <<[name |-> "VCALENDAR", dtstart |-> NoValue, dtend |-> NoValue,
       summary |-> <<>>, description |-> <<>>, uid |-> ""]>> \o ical_data

\* Faulty variant: keeps an event that has no end, its end defaulting to its start.
RECURSIVE get_calendar_events_end_defaults(_, _, _)
get_calendar_events_end_defaults(components, days_ago, today) ==
    IF components = <<>> THEN <<>>
    ELSE LET component == Head(components)
             start == component.dtstart
             end == IF component.dtend.kind = "none"
                    THEN component.dtstart ELSE component.dtend
             keep == /\ component.name = "VEVENT"
                     /\ start.kind # "datetime"
                     /\ end.kind # "datetime"
                     /\ \/ ~days_ago.given
                        \/ (today - days_ago.n <= start.d /\ start.d <= today)
         IN  (IF keep
              THEN <<[summary |-> component.summary,
                      start |-> start.d,
                      end |-> end.d,
                      description |-> component.description,
                      id |-> component.uid]>>
              ELSE <<>>)
             \o get_calendar_events_end_defaults(Tail(components), days_ago, today)

\* The loop of get_calendar_events over cal.walk().
RECURSIVE get_calendar_events(_, _, _)
get_calendar_events(components, days_ago, today) ==
    IF components = <<>> THEN <<>>
    ELSE LET component == Head(components)
             start == component.dtstart
             end == component.dtend
             keep == /\ component.name = "VEVENT"
                     /\ start.kind # "datetime"
                     /\ end.kind # "none"
                     /\ end.kind # "datetime"
                     /\ \/ ~days_ago.given
                        \/ (today - days_ago.n <= start.d /\ start.d <= today)
         IN  (IF keep
              THEN <<[summary |-> component.summary,
                      start |-> start.d,
                      end |-> end.d,
                      description |-> component.description,
                      id |-> component.uid]>>
              ELSE <<>>)
             \o get_calendar_events(Tail(components), days_ago, today)

\* ------------------------------------------------ reading the destination

EmptyDict == [k \in {} |-> <<>>]

\* d[key] = value
DictSet(d, key, value) ==
    [k \in DOMAIN d \cup {key} |-> IF k = key THEN value ELSE d[k]]

\* The loop of get_existing_notion_guests, guests being the dict built so far.
RECURSIVE GuestsLoop(_, _)
GuestsLoop(results, guests) ==
    IF results = <<>> THEN guests
    ELSE LET item == Head(results)
             name == Join(item.title)
             first_name == Lower(SplitFirst(name))
         IN  IF item.hasTitle
             THEN GuestsLoop(Tail(results),
                             DictSet(guests, first_name,
                                     [id |-> item.id, name |-> name]))
             ELSE GuestsLoop(Tail(results), guests)

get_existing_notion_guests(results) == GuestsLoop(results, EmptyDict)

\* The loop of get_existing_notion_stays; the outcome is the list built, or
\* the exception a malformed row raises.
RECURSIVE StaysLoop(_, _)
StaysLoop(results, typed_objects) ==
    IF results = <<>> THEN [raised |-> "", value |-> typed_objects]
    ELSE LET item == Head(results)
             name == IF item.hasTitle THEN Join(item.title) ELSE EmptyStay
             start_date == item.date.start
             end_date == item.date.end
             array == item.rollup
             guest_name == IF array # <<>> THEN array[1][1] ELSE UnknownGuest
             typed_object ==
                 [id |-> item.id,
                  Paid |-> item.paid,
                  Start |-> FromIsoFormat(start_date),
                  End |-> FromIsoFormat(end_date),
                  Guest |-> guest_name,
                  Name |-> name,
                  GCalID |-> item.gcal[1]]
         IN  IF item.date.null
             THEN [raised |-> "AttributeError", value |-> <<>>]
             ELSE IF start_date = NoIso \/ end_date = NoIso
             THEN StaysLoop(Tail(results), typed_objects)
             ELSE IF array # <<>> /\ array[1] = <<>>
             THEN [raised |-> "IndexError", value |-> <<>>]
             ELSE IF item.gcal = <<>>
             THEN [raised |-> "IndexError", value |-> <<>>]
             ELSE IF item.gcal[1] = ""
             THEN StaysLoop(Tail(results), typed_objects)
             ELSE StaysLoop(Tail(results), Append(typed_objects, typed_object))

get_existing_notion_stays(results) == StaysLoop(results, <<>>)

\* ----------------------------------------------- find_missing_gcal_stays

\* Faulty variant: looks a stay up by its start date instead of its id.
find_missing_by_start(gcal_stays_, notion_stays) ==
    LET starts == {notion_stays[k].Start : k \in DOMAIN notion_stays}
    IN  SelectSeq(gcal_stays_, LAMBDA stay : stay.start \notin starts)

RECURSIVE MissingLoop(_, _, _)
MissingLoop(gcal_stays_, existing_gcal_ids, missing) ==
    IF gcal_stays_ = <<>> THEN missing
    ELSE LET gcal_stay == Head(gcal_stays_)
         IN  MissingLoop(Tail(gcal_stays_), existing_gcal_ids,
                         IF gcal_stay.id \notin existing_gcal_ids
                         THEN Append(missing, gcal_stay)
                         ELSE missing)

find_missing_gcal_stays(gcal_stays_, notion_stays) ==
    MissingLoop(gcal_stays_,
                {notion_stays[k].GCalID : k \in DOMAIN notion_stays},
                <<>>)

\* ------------------------------------------------------------ the state

VARIABLES
    ical_url,         \* os.environ.get("GOOGLE_CALENDAR_ICAL_URL")
    feed,             \* the VEVENT components the calendar feed serves
    notionGuests,     \* the pages of the Notion guest database
    notionStays,      \* the pages of the Notion guest-stay database
    pc,               \* where main is
    run,              \* which run of main this is
    existing_guests,  \* main's dict of guests, mutated by add_stay_to_notion
    existing_stays,
    events,
    gcal_stays,
    missing_stays,
    i,                \* index into missing_stays of the stay the loop is at
    count,
    raised,           \* the exception that ended the run
    ioLog             \* every external call made so far, in order

vars ==
    <<ical_url, feed, notionGuests, notionStays, pc, run, existing_guests,
      existing_stays, events, gcal_stays, missing_stays, i, count, raised,
      ioLog>>

\* -------------------------------------------------------- the input sets

S_AliceAtLaplace ==
    <<"A", "l", "i", "c", "e", " ", "a", "t", " ",
      "L", "a", "p", "l", "a", "c", "e">>
S_BobALaPlace ==
    <<"B", "o", "b", " ", "à", " ", "L", "a", " ", "P", "l", "a", "c", "e">>
S_AliceSmithAtLaplace ==
    <<"A", "l", "i", "c", "e", " ", "S", "m", "i", "t", "h", " ", "a", "t",
      " ", "L", "a", "p", "l", "a", "c", "e">>
S_Dinner == <<"D", "i", "n", "n", "e", "r">>
N_AliceSmith == <<"A", "l", "i", "c", "e", " ", "S", "m", "i", "t", "h">>
N_Alice == <<"A", "l", "i", "c", "e">>
N_Jones == <<"J", "o", "n", "e", "s">>

VEvent(summary, dtstart, dtend, uid) ==
    [name |-> "VEVENT", dtstart |-> dtstart, dtend |-> dtend,
     summary |-> summary, description |-> <<>>, uid |-> uid]

\* The events a feed is drawn from: two stays of Alice under one uid, a
\* stay of a guest with a two-word name, a stay that ends before it starts,
\* an event that is no stay, events with a time of day, one without an end.
Events ==
    {VEvent(S_AliceAtLaplace, DateValue(11), DateValue(13), "u1"),
     VEvent(S_AliceAtLaplace, DateValue(15), DateValue(16), "u1"),
     VEvent(S_AliceSmithAtLaplace, DateValue(14), DateValue(15), "u3"),
     VEvent(S_BobALaPlace, DateValue(13), DateValue(12), "u4"),
     VEvent(S_Dinner, DateValue(11), DateValue(12), "u5"),
     VEvent(S_AliceAtLaplace, DateTimeValue(11), DateTimeValue(11), "u6"),
     VEvent(S_AliceAtLaplace, DateValue(11), DateTimeValue(12), "u7"),
     VEvent(S_AliceAtLaplace, DateValue(11), NoValue, "u8")}

GuestPage(id, hasTitle, title) ==
    [id |-> id, hasTitle |-> hasTitle, title |-> title]

StayPage(id, title, date, rollup, gcal) ==
    [id |-> id, hasTitle |-> TRUE, title |-> title, date |-> date,
     rollup |-> rollup, gcal |-> gcal, paid |-> FALSE]

DateRange(start, end) == [null |-> FALSE, start |-> start, end |-> end]
NullDate == [null |-> TRUE, start |-> NoIso, end |-> NoIso]

GP_AliceSmith == GuestPage(<<1>>, TRUE, <<N_AliceSmith>>)
GP_AliceJones == GuestPage(<<2>>, TRUE, <<N_Alice, N_Jones>>)
GP_Untitled == GuestPage(<<3>>, FALSE, <<>>)

\* Alice's first stay, as a run wrote it.
SP_Synced ==
    StayPage(<<4>>, <<S_AliceAtLaplace>>,
             DateRange(IsoFormat(11), IsoFormat(12)), <<<<N_AliceSmith>>>>,
             <<"u1">>)
\* The same stay entered by hand, under another id.
SP_ByHand ==
    StayPage(<<5>>, <<N_Alice>>,
             DateRange(IsoFormat(11), IsoFormat(12)), <<<<N_AliceSmith>>>>,
             <<"h1">>)
SP_NoEnd ==
    StayPage(<<6>>, <<N_Alice>>, DateRange(IsoFormat(14), NoIso), <<>>,
             <<"h2">>)
SP_EmptyGCalID ==
    StayPage(<<7>>, <<N_Alice>>, DateRange(IsoFormat(14), IsoFormat(14)),
             <<>>, <<"">>)
SP_NoGCalID ==
    StayPage(<<8>>, <<N_Alice>>, DateRange(IsoFormat(14), IsoFormat(14)),
             <<>>, <<>>)
SP_NoDate == StayPage(<<9>>, <<N_Alice>>, NullDate, <<>>, <<"h3">>)

\* The contents of the two Notion databases when the first run starts.
Databases ==
    {[guests |-> <<>>, stays |-> <<>>],
     [guests |-> <<GP_AliceSmith, GP_Untitled, GP_AliceJones>>,
      stays |-> <<>>],
     [guests |-> <<GP_AliceSmith>>,
      stays |-> <<SP_Synced, SP_NoEnd, SP_EmptyGCalID>>],
     [guests |-> <<GP_AliceSmith>>, stays |-> <<SP_ByHand>>],
     [guests |-> <<GP_AliceSmith>>, stays |-> <<SP_Synced, SP_NoGCalID>>],
     [guests |-> <<>>, stays |-> <<SP_NoDate>>]}

SeqsUpTo(S, n) == UNION {[1..k -> S] : k \in 0..n}

\* The feeds: up to MaxFeed events, no event served twice.
Feeds ==
    {f \in SeqsUpTo(Events, MaxFeed) :
        \A a, b \in DOMAIN f : f[a] = f[b] => a = b}

\* ------------------------------------------------------------------ main

\* The locals of main before its first statement.
Locals ==
    /\ pc = "load_guests"
    /\ existing_guests = EmptyDict
    /\ existing_stays = <<>>
    /\ events = <<>>
    /\ gcal_stays = <<>>
    /\ missing_stays = <<>>
    /\ i = 1
    /\ count = 0
    /\ raised = ""

Init ==
    /\ ical_url \in {Unset, "https://calendar/basic.ics"}
    /\ feed \in Feeds
    /\ \E db \in Databases :
          /\ notionGuests = db.guests
          /\ notionStays = db.stays
    /\ run = 1
    /\ ioLog = <<>>
    /\ Locals

IO(op, guest, uid, ok) ==
    [run |-> run, op |-> op, guest |-> guest, uid |-> uid, ok |-> ok]

Raise(exception) ==
    /\ pc' = "error"
    /\ raised' = exception

\* existing_guests = get_existing_notion_guests()
LoadGuests ==
    /\ pc = "load_guests"
    /\ ioLog' = Append(ioLog, IO("query_guests", <<>>, "", TRUE))
    /\ existing_guests' = get_existing_notion_guests(notionGuests)
    /\ pc' = "load_stays"
    /\ UNCHANGED <<ical_url, feed, notionGuests, notionStays, run,
                   existing_stays, events, gcal_stays, missing_stays, i,
                   count, raised>>

\* existing_stays = get_existing_notion_stays()
LoadStays ==
    /\ pc = "load_stays"
    /\ ioLog' = Append(ioLog, IO("query_stays", <<>>, "", TRUE))
    /\ LET r == get_existing_notion_stays(notionStays)
       IN  IF r.raised # ""
           THEN Raise(r.raised) /\ UNCHANGED existing_stays
           ELSE /\ existing_stays' = r.value
                /\ pc' = "get_events"
                /\ UNCHANGED raised
    /\ UNCHANGED <<ical_url, feed, notionGuests, notionStays, run,
                   existing_guests, events, gcal_stays, missing_stays, i,
                   count>>

\* Faulty variant: opens the URL without having looked at it.
GetCalendarEvents_unchecked_url ==
    /\ pc = "get_events"
    /\ \E status \in {200, 500} :
          /\ ioLog' = Append(ioLog,
                             IO("fetch", <<>>, "",
                                ical_url # Unset /\ status = 200))
          /\ IF ical_url = Unset \/ status # 200
             THEN Raise("ValueError: HTTP error") /\ UNCHANGED events
             ELSE /\ events' = get_calendar_events(Walk(feed), NoDaysAgo, 0)
                  /\ pc' = "filter"
                  /\ UNCHANGED raised
    /\ UNCHANGED <<ical_url, feed, notionGuests, notionStays, run,
                   existing_guests, existing_stays, gcal_stays,
                   missing_stays, i, count>>

\* events = get_calendar_events()
GetCalendarEvents ==
    /\ pc = "get_events"
    /\ IF ical_url = Unset
       THEN /\ Raise("ValueError: GOOGLE_CALENDAR_ICAL_URL is not set")
            /\ UNCHANGED <<events, ioLog>>
       ELSE \E status \in {200, 500} :
               /\ ioLog' = Append(ioLog, IO("fetch", <<>>, "", status = 200))
               /\ IF status # 200
                  THEN Raise("ValueError: HTTP error") /\ UNCHANGED events
                  ELSE /\ events' =
                              get_calendar_events(Walk(feed), NoDaysAgo, 0)
                       /\ pc' = "filter"
                       /\ UNCHANGED raised
    /\ UNCHANGED <<ical_url, feed, notionGuests, notionStays, run,
                   existing_guests, existing_stays, gcal_stays,
                   missing_stays, i, count>>

\* gcal_stays = filter_stay_events(events)
FilterStayEvents ==
    /\ pc = "filter"
    /\ gcal_stays' = filter_stay_events(events)
    /\ pc' = "find_missing"
    /\ UNCHANGED <<ical_url, feed, notionGuests, notionStays, run,
                   existing_guests, existing_stays, events, missing_stays,
                   i, count, raised, ioLog>>

\* missing_stays = find_missing_gcal_stays(gcal_stays, existing_stays)
FindMissing ==
    /\ pc = "find_missing"
    /\ missing_stays' = find_missing_gcal_stays(gcal_stays, existing_stays)
    /\ i' = 1
    /\ count' = 0
    /\ pc' = "add_loop"
    /\ UNCHANGED <<ical_url, feed, notionGuests, notionStays, run,
                   existing_guests, existing_stays, events, gcal_stays,
                   raised, ioLog>>

\* ---------------------------------------------------- add_stay_to_notion

\* The id Notion gives the page it creates.
NewPageId(guests, stays) == <<100 + Len(guests) + Len(stays)>>

\* add_guest_to_notion: the page written, and the NotionGuest returned.
NewGuestPage(page_id, guest) == GuestPage(page_id, TRUE, <<guest>>)
add_guest_to_notion(page_id, guest) == [id |-> page_id, name |-> guest]

\* Faulty variant: forgets to record the guest it has just created.
InsertGuest_forgotten(guests, key, new_guest) == guests

\* existing_guests[event["guest"].lower()] = new_guest
InsertGuest(guests, key, new_guest) == DictSet(guests, key, new_guest)

\* Faulty variant: writes no calendar id into the page.
StayProperties_without_id(event, notion_guest_id) ==
    [Name |-> event.summary,
     Date |-> DateRange(IsoFormat(event.start), IsoFormat(event.end - 1)),
     GCalID |-> "",
     Guest |-> IF notion_guest_id # <<>> THEN <<notion_guest_id>> ELSE <<>>]

\* The properties add_stay_to_notion sends to notion.pages.create.
StayProperties(event, notion_guest_id) ==
    [Name |-> event.summary,
     Date |-> DateRange(IsoFormat(event.start), IsoFormat(event.end - 1)),
     GCalID |-> event.id,
     Guest |-> IF notion_guest_id # <<>> THEN <<notion_guest_id>> ELSE <<>>]

\* The page Notion stores for these properties; the "Guest name" rollup is
\* the title of each related guest page.
NewStayPage(page_id, properties, guests) ==
    StayPage(page_id, <<properties.Name>>, properties.Date,
             [k \in DOMAIN properties.Guest |->
                 (CHOOSE g \in {guests[n] : n \in DOMAIN guests} :
                         g.id = properties.Guest[k]).title],
             <<properties.GCalID>>)

\* Lines 276-283 for the stay the loop is at, the guest write succeeding:
\* whether the guest was found, the guest's id, and the dict, the guest
\* database and the calls made afterwards.
ResolveGuest ==
    LET event == missing_stays[i]
        key == Lower(event.guest)
        new_guest ==
            add_guest_to_notion(NewPageId(notionGuests, notionStays),
                                event.guest)
    IN  IF key \in DOMAIN existing_guests
        THEN [found |-> TRUE,
              notion_guest_id |-> existing_guests[key].id,
              existing_guests |-> existing_guests,
              notionGuests |-> notionGuests,
              io |-> <<>>]
        ELSE [found |-> FALSE,
              notion_guest_id |-> new_guest.id,
              existing_guests |-> InsertGuest(existing_guests, key, new_guest),
              notionGuests |->
                  Append(notionGuests,
                         NewGuestPage(new_guest.id, event.guest)),
              io |-> <<IO("create_guest", event.guest, "", TRUE)>>]

InLoop == pc = "add_loop" /\ i <= Len(missing_stays)

\* One pass of the loop of main: add_stay_to_notion(stay, existing_guests),
\* every write succeeding.
AddStay ==
    /\ InLoop
    /\ LET event == missing_stays[i]
           g == ResolveGuest
           page == NewStayPage(NewPageId(g.notionGuests, notionStays),
                               StayProperties(event, g.notion_guest_id),
                               g.notionGuests)
       IN  /\ existing_guests' = g.existing_guests
           /\ notionGuests' = g.notionGuests
           /\ notionStays' = Append(notionStays, page)
           /\ ioLog' = ioLog \o g.io
                         \o <<IO("create_stay", event.guest, event.id, TRUE)>>
    /\ count' = count + 1
    /\ i' = i + 1
    /\ UNCHANGED <<ical_url, feed, pc, run, existing_stays, events,
                   gcal_stays, missing_stays, raised>>

\* The pass in which notion.pages.create of add_guest_to_notion raises.
AddStayGuestWriteFails ==
    /\ InLoop
    /\ ~ResolveGuest.found
    /\ ioLog' = Append(ioLog,
                       IO("create_guest", missing_stays[i].guest, "", FALSE))
    /\ count' = count + 1
    /\ Raise("APIResponseError")
    /\ UNCHANGED <<ical_url, feed, notionGuests, notionStays, run,
                   existing_guests, existing_stays, events, gcal_stays,
                   missing_stays, i>>

\* Faulty variant: deletes the guest it created when the stay write fails.
AddStayStayWriteFails_rollback ==
    /\ InLoop
    /\ ioLog' = ioLog \o ResolveGuest.io
                  \o <<IO("create_stay", missing_stays[i].guest,
                          missing_stays[i].id, FALSE)>>
    /\ count' = count + 1
    /\ Raise("APIResponseError")
    /\ UNCHANGED <<ical_url, feed, notionGuests, notionStays, run,
                   existing_guests, existing_stays, events, gcal_stays,
                   missing_stays, i>>

\* The pass in which notion.pages.create of add_stay_to_notion raises, the
\* guest having been resolved (and created, if new) before.
AddStayStayWriteFails ==
    /\ InLoop
    /\ existing_guests' = ResolveGuest.existing_guests
    /\ notionGuests' = ResolveGuest.notionGuests
    /\ ioLog' = ioLog \o ResolveGuest.io
                  \o <<IO("create_stay", missing_stays[i].guest,
                          missing_stays[i].id, FALSE)>>
    /\ count' = count + 1
    /\ Raise("APIResponseError")
    /\ UNCHANGED <<ical_url, feed, notionStays, run, existing_stays, events,
                   gcal_stays, missing_stays, i>>

\* The loop is exhausted: logging.info(f"Added {count} stays to Notion").
Finish ==
    /\ pc = "add_loop"
    /\ i > Len(missing_stays)
    /\ pc' = "done"
    /\ UNCHANGED <<ical_url, feed, notionGuests, notionStays, run,
                   existing_guests, existing_stays, events, gcal_stays,
                   missing_stays, i, count, raised, ioLog>>

\* The script is started again, on the same feed and the databases as the
\* run before left them.
RunAgain ==
    /\ pc = "done"
    /\ run < MaxRuns
    /\ run' = run + 1
    /\ pc' = "load_guests"
    /\ existing_guests' = EmptyDict
    /\ existing_stays' = <<>>
    /\ events' = <<>>
    /\ gcal_stays' = <<>>
    /\ missing_stays' = <<>>
    /\ i' = 1
    /\ count' = 0
    /\ raised' = ""
    /\ UNCHANGED <<ical_url, feed, notionGuests, notionStays, ioLog>>

Next ==
    \/ LoadGuests
    \/ LoadStays
    \/ GetCalendarEvents
    \/ FilterStayEvents
    \/ FindMissing
    \/ AddStay
    \/ AddStayGuestWriteFails
    \/ AddStayStayWriteFails
    \/ Finish
    \/ RunAgain

Spec == Init /\ [][Next]_vars

\* ------------------------------------------------ vocabulary of the claims

ConfigError == "ValueError: GOOGLE_CALENDAR_ICAL_URL is not set"
WriteError == "APIResponseError"

\* find_missing_gcal_stays has returned in this run.
AfterFind ==
    pc \in {"add_loop", "done"} \/ (pc = "error" /\ raised = WriteError)

\* filter_stay_events has returned in this run.
AfterFilter == pc = "find_missing" \/ AfterFind

\* The positions in ioLog of the calls of kind op made by run r.
Calls(op, r) ==
    {n \in DOMAIN ioLog : ioLog[n].op = op /\ ioLog[n].run = r}
Succeeded(op, r) == {n \in Calls(op, r) : ioLog[n].ok}

\* The guest database as it was when the current run started.
GuestsAtRunStart ==
    SubSeq(notionGuests, 1,
           Len(notionGuests) - Cardinality(Succeeded("create_guest", run)))

\* The summary contains "laplace" once lowercased and rid of its spaces.
HasLaplaceMarker(summary) ==
    LET squeezed == SelectSeq(Lower(summary), LAMBDA c : c # " ")
    IN  \E p \in 1..(Len(squeezed) - 6) : SubSeq(squeezed, p, p + 6) = laplace

\* The raw event passes every filter: pure-date start and end, and marker.
Qualifies(component) ==
    /\ component.dtstart.kind = "date"
    /\ component.dtend.kind = "date"
    /\ HasLaplaceMarker(component.summary)

Qualifying == SelectSeq(feed, Qualifies)

ExistingIds == {existing_stays[k].GCalID : k \in DOMAIN existing_stays}

\* ----------------------------------------------------------------- C1

\* C1: a run of main that follows a run in which no write failed, over the
\* same feed, reads back every stay record the earlier runs wrote, each
\* under the calendar id it was created with, and finds no stay missing.
C1_SecondRunFindsNothingMissing ==
    run > 1 =>
        /\ missing_stays = <<>>
        /\ AfterFind =>
              \A n \in DOMAIN ioLog :
                  (ioLog[n].op = "create_stay" /\ ioLog[n].run < run)
                      => ioLog[n].uid \in ExistingIds

\* A second run has compared two calendar stays with the records the
\* first run created for them.
C1_Witness ==
    /\ run = 2
    /\ pc = "done"
    /\ Len(gcal_stays) >= 2
    /\ Cardinality(Succeeded("create_stay", 1)) >= 2

\* ----------------------------------------------------------------- C2

C3_ExistingGuestPreferred ==
    \A n \in Calls("create_guest", run) :
        Lower(SplitFirst(ioLog[n].guest))
            \notin DOMAIN get_existing_notion_guests(GuestsAtRunStart)

\* ----------------------------------------------------------------- C4

\* C4: within one run add_guest_to_notion is called at most once for any
\* guest name; a guest it created is in the dictionary from then on, and
\* the entries the run loaded are neither removed nor replaced.
C4_GuestCreatedOncePerRun ==
    /\ \A m, n \in Calls("create_guest", run) :
          ioLog[m].guest = ioLog[n].guest => m = n
    /\ \A n \in Succeeded("create_guest", run) :
          /\ Lower(ioLog[n].guest) \in DOMAIN existing_guests
          /\ existing_guests[Lower(ioLog[n].guest)].name = ioLog[n].guest
    /\ pc # "load_guests" =>
          LET loaded == get_existing_notion_guests(GuestsAtRunStart)
          IN  \A key \in DOMAIN loaded :
                  /\ key \in DOMAIN existing_guests
                  /\ existing_guests[key] = loaded[key]

\* A run has added two stays of one guest, whom it had to create.
C4_Witness ==
    /\ pc = "done"
    /\ \E m, n \in Succeeded("create_stay", run) :
          /\ m # n
          /\ ioLog[m].guest = ioLog[n].guest
          /\ \E g \in Succeeded("create_guest", run) :
                ioLog[g].guest = ioLog[n].guest

\* ----------------------------------------------------------------- C5

\* C5 as stated: when the feed location is not set the run ends with the
\* configuration error before any I/O at all.
C5_ConfigErrorBeforeAnyIO == raised = ConfigError => ioLog = <<>>

\* C5, amended: when the feed location is not set the run never fetches
\* the calendar and never writes to the destination, and it ends with the
\* configuration error after the two destination queries and nothing else.
C5_ConfigErrorBeforeFetchAndWrites ==
    ical_url = Unset =>
        /\ pc \in {"load_guests", "load_stays", "get_events", "error"}
        /\ \A n \in DOMAIN ioLog :
              ioLog[n].op \in {"query_guests", "query_stays"}
        /\ pc = "error" =>
              [n \in DOMAIN ioLog |-> ioLog[n].op]
                  = <<"query_guests", "query_stays">>

\* The run has ended with the configuration error.
C5_Witness == pc = "error" /\ raised = ConfigError

\* ----------------------------------------------------------------- C6

\* C6: a calendar stay is not reported missing when some existing stay has
\* its start date, an inclusive end one day before its exclusive end, and
\* a guest text or name that contains the lowercase first token of its
\* guest name.
C6_HeuristicMatchIsNotMissing ==
    AfterFind =>
        \A k \in DOMAIN gcal_stays :
            LET stay == gcal_stays[k]
                first == Lower(SplitFirst(stay.guest))
            IN  (\E e \in DOMAIN existing_stays :
                    /\ existing_stays[e].Start = stay.start
                    /\ existing_stays[e].End + 1 = stay.end
                    /\ \/ Contains(first, Lower(existing_stays[e].Guest))
                       \/ Contains(first, Lower(existing_stays[e].Name)))
                => \A m \in DOMAIN missing_stays : missing_stays[m] # stay

\* ----------------------------------------------------------------- C7

\* C7 as stated: every Stay has end >= start, and a raw event with a
\* pure-date start and no end that otherwise qualifies yields a Stay whose
\* end equals its start.
C7_EndAtLeastStartAndDefaulted ==
    AfterFilter =>
        /\ \A k \in DOMAIN gcal_stays : gcal_stays[k].end >= gcal_stays[k].start
        /\ \A n \in DOMAIN feed :
              (/\ feed[n].dtstart.kind = "date"
               /\ feed[n].dtend.kind = "none"
               /\ HasLaplaceMarker(feed[n].summary))
              => \E k \in DOMAIN gcal_stays :
                    /\ gcal_stays[k].id = feed[n].uid
                    /\ gcal_stays[k].start = feed[n].dtstart.d
                    /\ gcal_stays[k].end = feed[n].dtstart.d

\* C7, amended: the Stays are the raw events that have a pure-date start,
\* a pure-date end and the marker, in feed order, each with the start and
\* the end of its raw event unchanged; so a raw event without an end
\* yields no Stay, and a Stay's end precedes its start when the event's does.
C7_StaysKeepTheEventsDates ==
    AfterFilter =>
        LET q == Qualifying
        IN  /\ Len(gcal_stays) = Len(q)
            /\ \A k \in DOMAIN gcal_stays :
                  /\ gcal_stays[k].id = q[k].uid
                  /\ gcal_stays[k].summary = q[k].summary
                  /\ gcal_stays[k].start = q[k].dtstart.d
                  /\ gcal_stays[k].end = q[k].dtend.d

\* The feed held an event without an end next to one that ends before it
\* starts, and only the latter became a Stay.
C7_Witness ==
    /\ AfterFilter
    /\ \E n \in DOMAIN feed :
          /\ feed[n].dtstart.kind = "date"
          /\ feed[n].dtend.kind = "none"
          /\ HasLaplaceMarker(feed[n].summary)
    /\ Len(gcal_stays) = 1
    /\ gcal_stays[1].end < gcal_stays[1].start

\* ----------------------------------------------------------------- C8

\* The stay pages the current run has created, oldest first.
CreatedStays ==
    SubSeq(notionStays,
           Len(notionStays) - Cardinality(Succeeded("create_stay", run)) + 1,
           Len(notionStays))

\* C8: a run in which no write fails creates one stay record per missing
\* stay, in order, and none for an event the filters removed; against a
\* destination without stays the numbers of stays found in the calendar,
\* missing and created all equal the number of qualifying events.
C8_CreatedEqualsMissing ==
    pc = "done" =>
        LET q == Qualifying
            created == CreatedStays
        IN  /\ count = Len(missing_stays)
            /\ Len(created) = Len(missing_stays)
            /\ \A k \in DOMAIN missing_stays :
                  /\ created[k].gcal = <<missing_stays[k].id>>
                  /\ created[k].title = <<missing_stays[k].summary>>
            /\ Len(missing_stays)
                  = Len(SelectSeq(q, LAMBDA c : c.uid \notin ExistingIds))
            /\ \A k \in DOMAIN created :
                  \E n \in DOMAIN q :
                      /\ created[k].gcal = <<q[n].uid>>
                      /\ created[k].title = <<q[n].summary>>
            /\ Len(notionStays) = count =>
                  /\ Len(gcal_stays) = Len(q)
                  /\ Len(missing_stays) = Len(q)
                  /\ count = Len(q)

\* The scenario of the specification: three events, one without the
\* marker, one with a time of day, one that qualifies, and no stay in the
\* destination; the run has created exactly one record.
C8_Witness ==
    /\ pc = "done"
    /\ Len(feed) = 3
    /\ \E n \in DOMAIN feed : ~HasLaplaceMarker(feed[n].summary)
    /\ \E n \in DOMAIN feed : feed[n].dtstart.kind = "datetime"
    /\ Len(notionStays) = 1
    /\ count = 1

\* ----------------------------------------------------------------- C9

\* C9: when a write for the k-th missing stay fails the run stops with the
\* error; the stay records of the first k-1 missing stays and every guest
\* record created so far, the one created for the k-th stay included,
\* remain; the failed call is the last one made.
C9_NoRollbackNoRetry ==
    (pc = "error" /\ raised = WriteError) =>
        /\ ~ENABLED Next
        /\ count = i
        /\ Len(CreatedStays) = i - 1
        /\ \A k \in 1..(i - 1) :
              CreatedStays[k].gcal = <<missing_stays[k].id>>
        /\ \A n \in Succeeded("create_guest", run) :
              \E g \in DOMAIN notionGuests :
                  notionGuests[g].title = <<ioLog[n].guest>>
        /\ ~ioLog[Len(ioLog)].ok
        /\ \A n \in 1..(Len(ioLog) - 1) : ioLog[n].ok
        /\ ioLog[Len(ioLog)].guest = missing_stays[i].guest

\* The stay write of the second missing stay failed after the guest of
\* that stay had been created.
C9_Witness ==
    /\ pc = "error"
    /\ raised = WriteError
    /\ i = 2
    /\ Len(ioLog) >= 2
    /\ ioLog[Len(ioLog)].op = "create_stay"
    /\ ioLog[Len(ioLog) - 1].op = "create_guest"

\* ---------------------------------------------------------------- C10

\* C10: after a run no two stay records of the destination carry the same
\* calendar id (the records it started from had pairwise distinct ids).
C10_OneRecordPerCalendarId ==
    pc = "done" =>
        \A m, n \in DOMAIN notionStays :
            (m # n /\ notionStays[m].gcal # <<>>)
                => notionStays[m].gcal # notionStays[n].gcal

====
